---- MODULE Spec2Model ----
(***************************************************************************)
(* GoCallTracer: the breadth-first dependency traversal of                 *)
(* internal/tracer/tracer.go (performRecursiveAnalysis), the classifier    *)
(* it runs on every function body (resultCollector.Visit) and the entry    *)
(* points that turn its two result maps into name lists and a report       *)
(* (ExtractCalledFuncs, ExtractTypes, Analyze).                            *)
(*                                                                         *)
(* A types.Object is a record [kind, pkg, recv, name].  A function body is *)
(* the sequence of objects its identifiers resolve to, in the pre-order of *)
(* ast.Walk.  A Go map is a sequence of [key, val] entries in insertion    *)
(* order: lookups and inserts go by key, and `for range` over the map      *)
(* yields the entries in an order the runtime chooses.                     *)
(***************************************************************************)
EXTENDS Integers, Sequences, FiniteSets, TLC

VARIABLES
    target,             \* initialTarget: the FuncDecl the request resolved
    depth,              \* the depth argument (maxDepth)
    op,                 \* the entry point called
    body,               \* the project: Fn.Body of every function declaration
    pc,                 \* position of the call
    projectPackages,    \* tracer.go:59
    typePkgMap,         \* tracer.go:60
    queue,              \* tracer.go:68
    processedFuncs,     \* tracer.go:71
    allCalledFuncs,     \* tracer.go:72
    allReferencedTypes, \* tracer.go:73
    walked,             \* the tasks whose body ast.Walk has entered, in order
    enqueued,           \* every task ever appended to the queue, in order
    outputs,            \* what the finished calls returned, in order
    request,            \* the tool call (or command line) being served
    response,           \* what the handler (or the command) answered
    parked              \* the state of a concurrent traversal that is not running

vars == <<target, depth, op, body, pc, projectPackages, typePkgMap, queue,
          processedFuncs, allCalledFuncs, allReferencedTypes, walked,
          enqueued, outputs, request, response, parked>>

----------------------------------------------------------------------------
(* Bounds of the model *)

\* identifiers resolved in one function body
MaxBody == 2
\* identifiers resolved in all the bodies of the project together
MaxIdents == 3
\* the depth argument ranges over -1 .. MaxDepthArg
MaxDepthArg == 2
\* calls of the entry point on the unchanged project
MaxCalls == 2

----------------------------------------------------------------------------
(* The project: packages, objects, declarations *)

\* a *types.Func; recv is "" for a package-level function, the receiver type
\* otherwise ("interface" for a method of an unnamed interface type)
Func(pkg, recv, name) ==
    [kind |-> "func", pkg |-> pkg, recv |-> recv, name |-> name]

\* a *types.TypeName
TypeName(pkg, name) ==
    [kind |-> "type", pkg |-> pkg, recv |-> "", name |-> name]

\* Pkg() == nil (objects of the universe scope)
NilPkg == ""

\* the packages packages.Load returned for "./...": PkgPath and Types
LoadedPkgs ==
    { [PkgPath |-> "app", Types |-> TRUE],
      [PkgPath |-> "lib", Types |-> TRUE] }

\* functions and methods declared with a FuncDecl in a loaded file
DeclFuncs ==
    { Func("app", "", "Run"),
      Func("app", "", "Load"),
      Func("lib", "", "Load"),
      Func("lib", "*lib.Store", "Save") }

\* abstract methods of unnamed interface types: objects of the project's
\* packages that no FuncDecl declares
IfaceMethods ==
    { Func("app", "interface", "Read"),
      Func("lib", "interface", "Read") }

\* objects outside the project: another module's function, a universe type
ExternalObjs ==
    { Func("fmt", "", "Println"),
      TypeName(NilPkg, "error") }

ProjectTypes ==
    { TypeName("app", "Config"),
      TypeName("lib", "Config") }

\* what an identifier of a body can resolve to
Objects == DeclFuncs \cup IfaceMethods \cup ExternalObjs \cup ProjectTypes

\* Fn.Body == nil: a declaration without a body
NilBody == [is |-> "nil", List |-> <<>>]

\* Fn.Body of a declaration with a body: the objects of its identifiers
Block(list) == [is |-> "block", List |-> list]

\* a body the traversal has not read yet
Unread == [is |-> "unread", List |-> <<>>]

\* the nil types.Object
NoObj == [kind |-> "nil", pkg |-> "", recv |-> "", name |-> ""]

\* the nil *ast.FuncDecl
NoDecl == [Name |-> NoObj, Def |-> FALSE]

\* all sequences over S of length at most n
SeqUpTo(S, n) == UNION { [1..k -> S] : k \in 0..n }

\* identifiers of the bodies read so far
RECURSIVE IdentsIn(_, _)
IdentsIn(b, fs) ==
    IF fs = {} THEN 0
    ELSE LET f == CHOOSE x \in fs : TRUE
         IN Len(b[f].List)
            + IdentsIn(b, fs \ {f})

\* The project is an input that no step changes: the body of a declaration is
\* drawn when the traversal first reads it and is the same at every later read.
BodiesOf(fn) ==
    IF body[fn] # Unread THEN {body[fn]}
    ELSE LET left == MaxIdents - IdentsIn(body, DeclFuncs)
             n == IF left < MaxBody THEN left ELSE MaxBody
         IN {NilBody} \cup { Block(l) : l \in SeqUpTo(Objects, n) }

\* a FuncDecl node: the function it declares, and whether the type checker
\* recorded an object for its name (it records none for a redeclaration)
FuncDecl(fn, defined) == [Name |-> fn, Def |-> defined]

AnalysisTarget(pkg, fn) == [Pkg |-> pkg, Fn |-> fn]

AnalysisTask(t, d) == [Target |-> t, Depth |-> d]

\* Pkg.TypesInfo.ObjectOf(Fn.Name)
ObjectOf(decl) == IF decl.Def THEN decl.Name ELSE NoObj

\* (*types.Func).FullName, the key of processedFuncs and allCalledFuncs
\* (tracer.go:82, 95): the package path and the name for a package-level
\* function, the parenthesized receiver type and the name for a method; go/types
\* writes the receiver of a method of an unnamed interface type as "interface",
\* without a package
FullName(fun) ==
    IF fun.recv # ""
    THEN "(" \o fun.recv \o ")." \o fun.name
    ELSE fun.pkg \o "." \o fun.name

\* fmt.Sprintf("%s.%s", typeObj.Pkg().Path(), typeObj.Name())
TypeKey(typeObj) == typeObj.pkg \o "." \o typeObj.name

\* the FuncDecl whose name is at fun.Pos(), or nil
findFuncDeclAt(fun) ==
    IF fun \in DeclFuncs THEN FuncDecl(fun, TRUE) ELSE NoDecl

----------------------------------------------------------------------------
(* Go maps *)

Keys(m) == { m[i].key : i \in 1..Len(m) }

Exists(m, k) == k \in Keys(m)

Get(m, k) == LET i == CHOOSE j \in 1..Len(m) : m[j].key = k IN m[i].val

\* m[k] = v
Put(m, k, v) ==
    IF Exists(m, k)
    THEN [i \in 1..Len(m) |-> IF m[i].key = k THEN [key |-> k, val |-> v] ELSE m[i]]
    ELSE Append(m, [key |-> k, val |-> v])

\* the keys in insertion order
KeySeq(m) == [i \in 1..Len(m) |-> m[i].key]

\* the orders in which `for k := range m` can yield the keys
RangeOrders(m) ==
    { [i \in 1..Len(m) |-> m[p[i]].key] :
        p \in { q \in [1..Len(m) -> 1..Len(m)] :
                  \A i, j \in 1..Len(m) : q[i] = q[j] => i = j } }

----------------------------------------------------------------------------
(* resultCollector.Visit over one body *)

\* the package filter dropped: Visit keeps every object
InScope_All(obj, pp) == TRUE

\* does Visit keep the object an identifier resolves to
InScope(obj, pp) == obj.pkg # NilPkg /\ obj.pkg \in pp

\* the type switch of Visit dropped: every kept object goes to both lists
RECURSIVE Collect_AnyKind(_, _, _)
Collect_AnyKind(b, pp, kind) ==
    IF b = <<>> THEN <<>>
    ELSE LET obj == Head(b)
             rest == Collect_AnyKind(Tail(b), pp, kind)
         IN IF InScope(obj, pp) THEN <<obj>> \o rest ELSE rest

\* the objects Visit appends to CalledFuncs (kind "func") or to ReferencedTypes
\* (kind "type") over the identifiers of one body
RECURSIVE Collect(_, _, _)
Collect(b, pp, kind) ==
    IF b = <<>> THEN <<>>
    ELSE LET obj == Head(b)
             rest == Collect(Tail(b), pp, kind)
         IN IF InScope(obj, pp) /\ obj.kind = kind THEN <<obj>> \o rest ELSE rest

----------------------------------------------------------------------------
(* performRecursiveAnalysis *)

\* the visited test dropped: no task is ever taken for processed
IsProcessed_Never(fnKey, processed) == FALSE

\* processedFuncs[fnKey] (tracer.go:83)
IsProcessed(fnKey, processed) == fnKey \in processed

\* the depth test off by one: a task at the depth bound still expands
ShouldExpand_Inclusive(task, fun, maxDepth, pp) ==
    task.Depth <= maxDepth /\ fun.pkg \in pp

\* the depth test off by one the other way: the tasks queued stay one level
\* short of the depth bound
ShouldExpand_Exclusive(task, fun, maxDepth, pp) ==
    task.Depth + 1 < maxDepth /\ fun.pkg \in pp

\* the depth test as an inequality: a task is expanded unless its depth is
\* the bound itself
ShouldExpand_NotEqual(task, fun, maxDepth, pp) ==
    task.Depth # maxDepth /\ fun.pkg \in pp

\* currentTask.Depth < depth && projectPackages[fun.Pkg().Path()] (tracer.go:98)
ShouldExpand(task, fun, maxDepth, pp) ==
    task.Depth < maxDepth /\ fun.pkg \in pp

\* the loop over collector.CalledFuncs leaving at the first callable it
\* cannot locate (break for continue)
RECURSIVE RecordFuncs_Break(_, _, _, _)
RecordFuncs_Break(funs, called, q, task) ==
    IF funs = <<>> THEN [called |-> called, queue |-> q]
    ELSE LET fun == Head(funs)
             funKey == FullName(fun)
         IN IF Exists(called, funKey)
            THEN RecordFuncs_Break(Tail(funs), called, q, task)
            ELSE LET called1 == Put(called, funKey, fun)
                     expand == ShouldExpand(task, fun, depth, projectPackages)
                     defNode == findFuncDeclAt(fun)
                 IN IF expand /\ fun.pkg \in typePkgMap /\ defNode # NoDecl
                    THEN RecordFuncs_Break(Tail(funs), called1,
                             Append(q, AnalysisTask(AnalysisTarget(fun.pkg, defNode),
                                                    task.Depth + 1)),
                             task)
                    ELSE IF expand
                         THEN [called |-> called1, queue |-> q]
                         ELSE RecordFuncs_Break(Tail(funs), called1, q, task)

\* the presence test dropped: a callable found again is stored over the entry
\* of its key
RECURSIVE RecordFuncs_Overwrite(_, _, _, _)
RecordFuncs_Overwrite(funs, called, q, task) ==
    IF funs = <<>> THEN [called |-> called, queue |-> q]
    ELSE LET fun == Head(funs)
             funKey == FullName(fun)
             called1 == Put(called, funKey, fun)
             expand == ShouldExpand(task, fun, depth, projectPackages)
             defNode == findFuncDeclAt(fun)
         IN IF Exists(called, funKey)
            THEN RecordFuncs_Overwrite(Tail(funs), called1, q, task)
            ELSE IF expand /\ fun.pkg \in typePkgMap /\ defNode # NoDecl
                 THEN RecordFuncs_Overwrite(Tail(funs), called1,
                          Append(q, AnalysisTask(AnalysisTarget(fun.pkg, defNode),
                                                 task.Depth + 1)),
                          task)
                 ELSE RecordFuncs_Overwrite(Tail(funs), called1, q, task)

\* the new task put at the front of the queue instead of its back: the
\* traversal goes depth first
RECURSIVE RecordFuncs_Stack(_, _, _, _)
RecordFuncs_Stack(funs, called, q, task) ==
    IF funs = <<>> THEN [called |-> called, queue |-> q]
    ELSE LET fun == Head(funs)
             funKey == FullName(fun)
         IN IF Exists(called, funKey)
            THEN RecordFuncs_Stack(Tail(funs), called, q, task)
            ELSE LET called1 == Put(called, funKey, fun)
                     expand == ShouldExpand(task, fun, depth, projectPackages)
                     defNode == findFuncDeclAt(fun)
                 IN IF expand /\ fun.pkg \in typePkgMap /\ defNode # NoDecl
                    THEN RecordFuncs_Stack(Tail(funs), called1,
                             << AnalysisTask(AnalysisTarget(fun.pkg, defNode),
                                             task.Depth + 1) >> \o q,
                             task)
                    ELSE RecordFuncs_Stack(Tail(funs), called1, q, task)

\* a callable found again is queued again: the append is not under the
\* presence test
RECURSIVE RecordFuncs_Requeue(_, _, _, _)
RecordFuncs_Requeue(funs, called, q, task) ==
    IF funs = <<>> THEN [called |-> called, queue |-> q]
    ELSE LET fun == Head(funs)
             funKey == FullName(fun)
             called1 == IF Exists(called, funKey) THEN called
                        ELSE Put(called, funKey, fun)
             expand == ShouldExpand(task, fun, depth, projectPackages)
             defNode == findFuncDeclAt(fun)
         IN IF expand /\ fun.pkg \in typePkgMap /\ defNode # NoDecl
            THEN RecordFuncs_Requeue(Tail(funs), called1,
                     Append(q, AnalysisTask(AnalysisTarget(fun.pkg, defNode),
                                            task.Depth + 1)),
                     task)
            ELSE RecordFuncs_Requeue(Tail(funs), called1, q, task)

\* the loop over collector.CalledFuncs: the map and the queue after it
RECURSIVE RecordFuncs(_, _, _, _)
RecordFuncs(funs, called, q, task) ==
    IF funs = <<>> THEN [called |-> called, queue |-> q]
    ELSE LET fun == Head(funs)
             funKey == FullName(fun)
         IN IF Exists(called, funKey)
            THEN RecordFuncs(Tail(funs), called, q, task)
            ELSE LET called1 == Put(called, funKey, fun)
                     expand == ShouldExpand(task, fun, depth, projectPackages)
                     defNode == findFuncDeclAt(fun)
                 IN IF expand /\ fun.pkg \in typePkgMap /\ defNode # NoDecl
                    THEN RecordFuncs(Tail(funs), called1,
                             Append(q, AnalysisTask(AnalysisTarget(fun.pkg, defNode),
                                                    task.Depth + 1)),
                             task)
                    ELSE RecordFuncs(Tail(funs), called1, q, task)

\* the loop over collector.ReferencedTypes
RECURSIVE RecordTypes(_, _)
RecordTypes(tys, refd) ==
    IF tys = <<>> THEN refd
    ELSE LET typeObj == Head(tys)
             typeKey == TypeKey(typeObj)
         IN IF Exists(refd, typeKey)
            THEN RecordTypes(Tail(tys), refd)
            ELSE RecordTypes(Tail(tys),
                             Put(refd, typeKey, [Name |-> typeKey, Definition |-> typeObj]))

\* tracer.go:59-73
Begin ==
    /\ pc = "call"
    /\ projectPackages' = { p.PkgPath : p \in LoadedPkgs }
    /\ typePkgMap' = { p.PkgPath : p \in { r \in LoadedPkgs : r.Types } }
    /\ queue' = << AnalysisTask(target, 0) >>
    /\ processedFuncs' = {}
    /\ allCalledFuncs' = <<>>
    /\ allReferencedTypes' = <<>>
    /\ walked' = <<>>
    /\ enqueued' = << AnalysisTask(target, 0) >>
    /\ pc' = "loop"
    /\ UNCHANGED <<target, depth, op, body, outputs,
                   request, response, parked>>

currentTask == Head(queue)

fnObj == ObjectOf(currentTask.Target.Fn)

\* tracer.go:79-81
SkipUnresolved ==
    /\ pc = "loop" /\ queue # <<>>
    /\ fnObj = NoObj
    /\ queue' = Tail(queue)
    /\ UNCHANGED <<target, depth, op, body, pc, projectPackages, typePkgMap,
                   processedFuncs, allCalledFuncs, allReferencedTypes, walked,
                   enqueued, outputs,
                   request, response, parked>>

\* tracer.go:82-85
SkipProcessed ==
    /\ pc = "loop" /\ queue # <<>>
    /\ fnObj # NoObj
    /\ IsProcessed(FullName(fnObj), processedFuncs)
    /\ queue' = Tail(queue)
    /\ UNCHANGED <<target, depth, op, body, pc, projectPackages, typePkgMap,
                   processedFuncs, allCalledFuncs, allReferencedTypes, walked,
                   enqueued, outputs,
                   request, response, parked>>

\* tracer.go:86-92 on a declaration without a body: ast.Walk calls Visit with
\* the nil *ast.BlockStmt, Visit returns the collector, and Walk then reads
\* n.List of the nil block
WalkNilBody ==
    /\ pc = "loop" /\ queue # <<>>
    /\ fnObj # NoObj
    /\ ~IsProcessed(FullName(fnObj), processedFuncs)
    /\ NilBody \in BodiesOf(currentTask.Target.Fn.Name)
    /\ body' = [body EXCEPT ![currentTask.Target.Fn.Name] = NilBody]
    /\ queue' = Tail(queue)
    /\ processedFuncs' = processedFuncs \cup {FullName(fnObj)}
    /\ walked' = Append(walked, currentTask)
    /\ pc' = "panic"
    /\ UNCHANGED <<target, depth, op, projectPackages, typePkgMap,
                   allCalledFuncs, allReferencedTypes, enqueued, outputs,
                   request, response, parked>>

\* tracer.go:86-121
Expand ==
    /\ pc = "loop" /\ queue # <<>>
    /\ fnObj # NoObj
    /\ ~IsProcessed(FullName(fnObj), processedFuncs)
    /\ \E b \in BodiesOf(currentTask.Target.Fn.Name) \ {NilBody} :
         LET r == RecordFuncs(Collect(b.List, projectPackages, "func"),
                              allCalledFuncs, Tail(queue), currentTask)
         IN /\ body' = [body EXCEPT ![currentTask.Target.Fn.Name] = b]
            /\ processedFuncs' = processedFuncs \cup {FullName(fnObj)}
            /\ walked' = Append(walked, currentTask)
            /\ allCalledFuncs' = r.called
            /\ queue' = r.queue
            /\ enqueued' = enqueued \o SubSeq(r.queue, Len(queue), Len(r.queue))
            /\ allReferencedTypes' =
                   RecordTypes(Collect(b.List, projectPackages, "type"), allReferencedTypes)
    /\ UNCHANGED <<target, depth, op, pc, projectPackages, typePkgMap, outputs,
                   request, response, parked>>

----------------------------------------------------------------------------
(* The entry points *)

\* getFuncSourceSnippet returns no error: findFuncDeclAt finds the declaration
HasFuncSnippet(fun) == findFuncDeclAt(fun) # NoDecl

\* getTypeSourceSnippet returns no error: a TypeSpec has its name at the position
HasTypeSnippet(typeObj) == typeObj \in ProjectTypes

\* the "Source for:" blocks Analyze writes when it ranges over the callables in
\* the order `order` (tracer.go:177-191)
FuncSnippetBlocks(order) ==
    SelectSeq(order, LAMBDA name :
        LET fun == Get(allCalledFuncs, name)
        IN fun.pkg \in typePkgMap /\ HasFuncSnippet(fun))

\* the same for the types (tracer.go:193-204)
TypeSnippetBlocks(order) ==
    SelectSeq(order, LAMBDA name :
        HasTypeSnippet(Get(allReferencedTypes, name).Definition))

\* what ExtractCalledFuncs can return (tracer.go:323-327)
ExtractCalledFuncs ==
    { [op |-> op, funcs |-> o, types |-> <<>>, funcSnippets |-> <<>>,
       typeSnippets |-> <<>>] : o \in RangeOrders(allCalledFuncs) }

\* what ExtractTypes can return (tracer.go:309-313)
ExtractTypes ==
    { [op |-> op, funcs |-> <<>>, types |-> o, funcSnippets |-> <<>>,
       typeSnippets |-> <<>>] : o \in RangeOrders(allReferencedTypes) }

\* the lists of the report Analyze can build (tracer.go:157-205): the two
\* summaries and the two runs of snippet blocks, each from a range of its own
Analyze ==
    { [op |-> op, funcs |-> o1, types |-> o2,
       funcSnippets |-> FuncSnippetBlocks(o3),
       typeSnippets |-> TypeSnippetBlocks(o4)] :
         o1 \in RangeOrders(allCalledFuncs), o2 \in RangeOrders(allReferencedTypes),
         o3 \in RangeOrders(allCalledFuncs), o4 \in RangeOrders(allReferencedTypes) }

\* what the call returns once the loop has ended
Returns ==
    CASE op = "ExtractCalledFuncs" -> ExtractCalledFuncs
      [] op = "ExtractTypes" -> ExtractTypes
      [] op = "Analyze" -> Analyze

\* tracer.go:124-127: the loop has ended and the two maps are returned
Return ==
    /\ pc = "loop" /\ queue = <<>>
    /\ pc' = "done"
    /\ UNCHANGED <<target, depth, op, body, projectPackages, typePkgMap, queue,
                   processedFuncs, allCalledFuncs, allReferencedTypes, walked,
                   enqueued, outputs,
                   request, response, parked>>

\* the entry point turns the returned maps into what it hands back
Output ==
    /\ pc = "done"
    /\ op \in {"ExtractCalledFuncs", "ExtractTypes", "Analyze"}
    /\ \E out \in Returns : outputs' = Append(outputs, out)
    /\ pc' = "returned"
    /\ UNCHANGED <<target, depth, op, body, projectPackages, typePkgMap, queue,
                   processedFuncs, allCalledFuncs, allReferencedTypes, walked,
                   enqueued,
                   request, response, parked>>

\* the same request again, on the unchanged project
CallAgain ==
    /\ pc = "returned"
    /\ Len(outputs) < MaxCalls
    /\ pc' = "call"
    /\ UNCHANGED <<target, depth, op, body, projectPackages, typePkgMap, queue,
                   processedFuncs, allCalledFuncs, allReferencedTypes, walked,
                   enqueued, outputs,
                   request, response, parked>>

----------------------------------------------------------------------------

\* no concurrent traversal
NoTraversal == [pc |-> "none"]

\* no tool call: the entry point is called directly
NoRequest == [tool |-> "none"]

NoResponse == [isError |-> FALSE, msg |-> "none"]

\* the targets a lookup by file and name can hand to the traversal: the type
\* checker records an object for every method name and for the first
\* declaration of a package-level name, none for a redeclaration of it
ResolvedTargets ==
    { t \in { AnalysisTarget(f.pkg, FuncDecl(f, d)) : f \in DeclFuncs, d \in BOOLEAN } :
        t.Fn.Def \/ t.Fn.Name.recv = "" }

\* the requests: a target FindTarget resolved, a depth, an entry point
Requests(ops) ==
    /\ target \in ResolvedTargets
    /\ depth \in -1..MaxDepthArg
    /\ op \in ops
    /\ body = [f \in DeclFuncs |-> Unread]
    /\ pc = "call"
    /\ projectPackages = {}
    /\ typePkgMap = {}
    /\ queue = <<>>
    /\ processedFuncs = {}
    /\ allCalledFuncs = <<>>
    /\ allReferencedTypes = <<>>
    /\ walked = <<>>
    /\ enqueued = <<>>
    /\ outputs = <<>>
    /\ request = NoRequest
    /\ response = NoResponse
    /\ parked = NoTraversal

\* one traversal
Init == Requests({"performRecursiveAnalysis"})

Next ==
    \/ Begin
    \/ SkipUnresolved
    \/ SkipProcessed
    \/ WalkNilBody
    \/ Expand
    \/ Return

Spec == Init /\ [][Next]_vars

\* calls of the entry points, repeated on the unchanged project
InitCalls == Requests({"ExtractCalledFuncs", "ExtractTypes", "Analyze"})

NextCalls ==
    \/ Begin
    \/ SkipUnresolved
    \/ SkipProcessed
    \/ WalkNilBody
    \/ Expand
    \/ Return
    \/ Output
    \/ CallAgain

SpecCalls == InitCalls /\ [][NextCalls]_vars

----------------------------------------------------------------------------
(* The tool handlers of the server and the command line (cmd/gct-cli/main.go) *)

\* A path is the sequence of its elements; an absolute path starts with "/".
\* the project root directory the requests name
ProjectRoot == <<"/", "proj">>

\* p.GoFiles, absolute paths, with the FuncDecls of p.Syntax[i].Decls in order
GoFiles ==
    { [Pkg |-> "app", File |-> ProjectRoot \o <<"app", "run.go">>,
       Decls |-> << Func("app", "", "Run"), Func("app", "", "Load") >>],
      [Pkg |-> "lib", File |-> ProjectRoot \o <<"lib", "store.go">>,
       Decls |-> << Func("lib", "", "Load"), Func("lib", "*lib.Store", "Save") >>] }

\* filepath.IsAbs
IsAbs(path) == path # <<>> /\ path[1] = "/"

\* filepath.Join of two clean paths
Join(dir, path) == dir \o path

\* absInputFile (main.go:36-41)
AbsInputFile(inputFile) ==
    IF IsAbs(inputFile) THEN inputFile ELSE Join(ProjectRoot, inputFile)

\* the first FuncDecl of decls with fn.Name.Name == funcName, or nil
RECURSIVE FirstNamed(_, _)
FirstNamed(decls, funcName) ==
    IF decls = <<>> THEN NoObj
    ELSE IF Head(decls).name = funcName THEN Head(decls)
         ELSE FirstNamed(Tail(decls), funcName)

\* FindTarget (tracer.go:280-295), and the same loop in main (main.go:56-74):
\* the function the first matching FuncDecl of the file `file == filePath`
\* declares, or nil when the loops end without a match
FindTarget(filePath, funcName) ==
    LET hits == { g \in GoFiles : g.File = filePath
                                   /\ FirstNamed(g.Decls, funcName) # NoObj }
    IN IF hits = {} THEN NoObj
       ELSE FirstNamed((CHOOSE g \in hits : TRUE).Decls, funcName)

\* the tools RegisterTools registers, and the command
ServerTools == {"full_report", "func_code", "ref_types", "called_funcs", "get_snippet"}

Cli == "gct-cli"

\* the parameters a tool declares with mcp.Required() (main.go:266-311)
Declared(tool) ==
    IF tool \in {"full_report", "ref_types", "called_funcs"}
    THEN {"project", "file", "func", "depth"}
    ELSE {"project", "file", "func"}

\* the parameters whose absence makes the handler return an error result
\* (the Require calls followed by a return), or main call log.Fatal
Required(tool) ==
    IF tool = "full_report"
    THEN {"project", "file", "func", "depth"}
    ELSE {"project", "file", "func"}

\* the depth a request without one runs with (main.go:205, 241; flag default
\* at main.go:23)
DefaultDepth(tool) == IF tool \in {"ref_types", "called_funcs"} THEN 3 ELSE 0

\* the entry point of the tracer package a handler calls
EntryPoint(tool) ==
    CASE tool \in {"full_report", Cli} -> "Analyze"
      [] tool = "ref_types" -> "ExtractTypes"
      [] tool = "called_funcs" -> "ExtractCalledFuncs"
      [] tool \in {"func_code", "get_snippet"} -> "GetFuncCode"

\* the outcomes of packages.Load: an error, packages of which some carry
\* errors (packages.PrintErrors(pkgs) > 0), packages without errors
LoadOutcomes == {"error", "partial", "clean"}

\* every load error is swallowed
LoadFails_Never(tool, load) == FALSE

\* the load ends the request: packages.Load returned an error (main.go:47-49,
\* 111-113, 140-142), or the command found errors in the packages (main.go:50-52)
LoadFails(tool, load) == load = "error" \/ (tool = Cli /\ load = "partial")

ErrorResult(msg) == [isError |-> TRUE, msg |-> msg]

TextResult(msg) == [isError |-> FALSE, msg |-> msg]

\* the Require calls at the head of a handler (main.go:122-137, 159-170,
\* 190-206, 226-242) and the flag test of main (main.go:26-29): a missing
\* parameter ends the request, except a missing depth where the handler falls
\* back to a default
RequireParams ==
    /\ pc = "request"
    /\ IF Required(request.tool) \subseteq request.has
       THEN /\ depth' = IF EntryPoint(request.tool) = "GetFuncCode" THEN depth
                        ELSE IF "depth" \in request.has THEN request.depth
                        ELSE DefaultDepth(request.tool)
            /\ pc' = "params"
            /\ UNCHANGED response
       ELSE /\ response' = ErrorResult("required argument missing")
            /\ pc' = "responded"
            /\ UNCHANGED depth
    /\ UNCHANGED <<target, op, body, projectPackages, typePkgMap, queue,
                   processedFuncs, allCalledFuncs, allReferencedTypes, walked,
                   enqueued, outputs, request, parked>>

\* loadProject (main.go:108-118) as the handlers call it, and the load of the
\* command (main.go:45-52)
loadProject ==
    /\ pc = "params"
    /\ IF LoadFails(request.tool, request.load)
       THEN /\ response' = ErrorResult("Failed to load project")
            /\ pc' = "responded"
       ELSE /\ pc' = "loaded"
            /\ UNCHANGED response
    /\ UNCHANGED <<target, depth, op, body, projectPackages, typePkgMap, queue,
                   processedFuncs, allCalledFuncs, allReferencedTypes, walked,
                   enqueued, outputs, request, parked>>

\* the file path the lookup is given: the handlers pass the `file` argument as
\* it came (main.go:144, 176, 212, 248), the command passes absInputFile
LookupPath(req) == IF req.tool = Cli THEN AbsInputFile(req.file) ELSE req.file

\* whether the type checker recorded an object for the found declaration: in
\* a project loaded with errors a package-level name can be a redeclaration
DefChoices(req, fn) ==
    IF req.load = "partial" /\ fn.recv = "" THEN BOOLEAN ELSE {TRUE}

\* the lookup of the target and, when it is found, the call of the entry point
\* (main.go:144-149, 176-185, 212-216, 248-252; main.go:54-80). GetFuncCode
\* formats the found declaration and runs no traversal.
ResolveTarget ==
    /\ pc = "loaded"
    /\ LET fn == FindTarget(LookupPath(request), request.func)
           entry == EntryPoint(request.tool)
       IN IF fn = NoObj
          THEN /\ response' = ErrorResult("Failed to find target")
               /\ pc' = "responded"
               /\ UNCHANGED <<target, op>>
          ELSE /\ \E d \in DefChoices(request, fn) :
                     target' = AnalysisTarget(fn.pkg, FuncDecl(fn, d))
               /\ op' = entry
               /\ IF entry = "GetFuncCode"
                  THEN response' = TextResult("code") /\ pc' = "responded"
                  ELSE pc' = "call" /\ UNCHANGED response
    /\ UNCHANGED <<depth, body, projectPackages, typePkgMap, queue,
                   processedFuncs, allCalledFuncs, allReferencedTypes, walked,
                   enqueued, outputs, request, parked>>

\* the entry point turns the maps of the ended loop into its return value and
\* the handler wraps it in a result (main.go:149-154, 216-221, 252-257); the
\* command writes the report (main.go:80-90)
Respond ==
    /\ pc = "done"
    /\ \E out \in Returns : outputs' = Append(outputs, out)
    /\ response' = TextResult(op)
    /\ pc' = "responded"
    /\ UNCHANGED <<target, depth, op, body, projectPackages, typePkgMap, queue,
                   processedFuncs, allCalledFuncs, allReferencedTypes, walked,
                   enqueued, request, parked>>

\* the `file` arguments: a project file by its path relative to the root and
\* by its absolute path
FileArgs == { <<"app", "run.go">>, ProjectRoot \o <<"app", "run.go">> }

\* the `func` arguments: a function that file declares, and one it does not
FuncArgs == {"Run", "Save"}

\* the tool calls and command lines: the parameters present, their values (a
\* missing parameter has none), and how the named project loads
ToolCalls ==
    { r \in [tool : ServerTools \cup {Cli},
             has : SUBSET {"project", "file", "func", "depth"},
             file : FileArgs \cup {<<>>},
             func : FuncArgs \cup {""},
             depth : -1..MaxDepthArg,
             load : LoadOutcomes] :
        /\ "file" \in r.has <=> r.file # <<>>
        /\ "func" \in r.has <=> r.func # ""
        /\ "depth" \notin r.has => r.depth = 0
        /\ "project" \notin r.has => r.load = "clean" }

\* no target yet
NoTarget == AnalysisTarget(NilPkg, NoDecl)

InitServer ==
    /\ request \in ToolCalls
    /\ response = NoResponse
    /\ target = NoTarget
    /\ depth = 0
    /\ op = "none"
    /\ body = [f \in DeclFuncs |-> Unread]
    /\ pc = "request"
    /\ projectPackages = {}
    /\ typePkgMap = {}
    /\ queue = <<>>
    /\ processedFuncs = {}
    /\ allCalledFuncs = <<>>
    /\ allReferencedTypes = <<>>
    /\ walked = <<>>
    /\ enqueued = <<>>
    /\ outputs = <<>>
    /\ parked = NoTraversal

NextServer ==
    \/ RequireParams
    \/ loadProject
    \/ ResolveTarget
    \/ Begin
    \/ SkipUnresolved
    \/ SkipProcessed
    \/ WalkNilBody
    \/ Expand
    \/ Return
    \/ Respond

\* one tool call, or one run of the command, from the request to the answer
SpecServer == InitServer /\ [][NextServer]_vars

----------------------------------------------------------------------------
(* Two traversals over the same loaded packages *)

\* what one call of performRecursiveAnalysis holds in its parameters and local
\* variables (tracer.go:58-73); the packages, here `body`, are shared
Locals ==
    [target |-> target, depth |-> depth, pc |-> pc,
     projectPackages |-> projectPackages, typePkgMap |-> typePkgMap,
     queue |-> queue, processedFuncs |-> processedFuncs,
     allCalledFuncs |-> allCalledFuncs, allReferencedTypes |-> allReferencedTypes,
     walked |-> walked, enqueued |-> enqueued]

\* the visited set is one map shared by all the calls
OwnMap_Shared(own, other) == own \cup other

\* the map a call goes on with is the one it made itself (tracer.go:71-73)
OwnMap(own, other) == own

\* the scheduler takes the running traversal off the processor and runs the
\* other one, unless that one has returned. A panic ends the process, so
\* nothing runs after it.
Switch ==
    /\ pc # "panic"
    /\ parked # NoTraversal
    /\ parked.pc # "done"
    /\ parked' = Locals
    /\ target' = parked.target
    /\ depth' = parked.depth
    /\ pc' = parked.pc
    /\ projectPackages' = parked.projectPackages
    /\ typePkgMap' = parked.typePkgMap
    /\ queue' = parked.queue
    /\ processedFuncs' = OwnMap(parked.processedFuncs, processedFuncs)
    /\ allCalledFuncs' = parked.allCalledFuncs
    /\ allReferencedTypes' = parked.allReferencedTypes
    /\ walked' = parked.walked
    /\ enqueued' = parked.enqueued
    /\ UNCHANGED <<op, body, outputs, request, response>>

\* a call that has not started
Called(t, d) ==
    [target |-> t, depth |-> d, pc |-> "call",
     projectPackages |-> {}, typePkgMap |-> {}, queue |-> <<>>,
     processedFuncs |-> {}, allCalledFuncs |-> <<>>, allReferencedTypes |-> <<>>,
     walked |-> <<>>, enqueued |-> <<>>]

\* two calls: one with any target and depth, one for app.Run, for its direct
\* references or as deep as the depth argument goes
InitConcurrent ==
    /\ target \in ResolvedTargets
    /\ depth \in -1..MaxDepthArg
    /\ parked \in { Called(AnalysisTarget("app", FuncDecl(Func("app", "", "Run"), TRUE)), d) :
                       d \in {0, MaxDepthArg} }
    /\ op = "performRecursiveAnalysis"
    /\ body = [f \in DeclFuncs |-> Unread]
    /\ pc = "call"
    /\ projectPackages = {}
    /\ typePkgMap = {}
    /\ queue = <<>>
    /\ processedFuncs = {}
    /\ allCalledFuncs = <<>>
    /\ allReferencedTypes = <<>>
    /\ walked = <<>>
    /\ enqueued = <<>>
    /\ outputs = <<>>
    /\ request = NoRequest
    /\ response = NoResponse

NextConcurrent ==
    \/ Begin
    \/ SkipUnresolved
    \/ SkipProcessed
    \/ WalkNilBody
    \/ Expand
    \/ Return
    \/ Switch

\* two traversals whose steps interleave in any order
SpecConcurrent == InitConcurrent /\ [][NextConcurrent]_vars

----------------------------------------------------------------------------
(* Vocabulary of the properties *)

\* the call has returned and its result maps are the ones in the state
Finished == pc \in {"done", "returned"}

\* the task the queue is seeded with
Seed == AnalysisTask(target, 0)

\* the target the request resolved declares fn, and its name has an object
TargetIs(fn) == target = AnalysisTarget(fn.pkg, FuncDecl(fn, TRUE))

\* the function a task is about
FnOf(task) == task.Target.Fn.Name

\* the range of a sequence
Range(seq) == { seq[i] : i \in 1..Len(seq) }

\* the objects of the project's packages a body refers to, by kind
RefsOf(fn, kind) ==
    { o \in Range(body[fn].List) : o.kind = kind /\ o.pkg \in {p.PkgPath : p \in LoadedPkgs} }

\* a declaration whose body, as far as the traversal has read it, refers to nothing
NoRefs(fn) == body[fn] \in {Unread, Block(<<>>)}

----------------------------------------------------------------------------
(* C1 *)

\* target a calls b and c, b calls d, nothing else is referenced
Scenario1(a, b, c, d) ==
    /\ TargetIs(a)
    /\ body[a] = Block(<<b, c>>)
    /\ body[b] = Block(<<d>>)
    /\ NoRefs(c)
    /\ NoRefs(d)

\* C1: for a target A that calls B and C, where B calls D, a call with depth 1
\* returns the callable set {B, C} without D, and a call with depth 2 returns
\* {B, C, D}.
C1_DepthOneImmediateCalls ==
    \A a, b, c, d \in DeclFuncs :
        (Finished /\ Cardinality({a, b, c, d}) = 4 /\ Scenario1(a, b, c, d)) =>
            /\ depth = 1 => Keys(allCalledFuncs) = {FullName(b), FullName(c)}
            /\ depth = 2 => Keys(allCalledFuncs) = {FullName(b), FullName(c), FullName(d)}

----------------------------------------------------------------------------
(* C2 *)

\* target a refers to type t and calls b, and b's body refers to type u
Scenario2(a, b, t, u) ==
    /\ TargetIs(a)
    /\ body[a] \in {Block(<<t, b>>), Block(<<b, t>>)}
    /\ body[b] = Block(<<u>>)

\* C2: for a target A that refers to type T and calls B, where only B's body
\* refers to type U, a call with depth 1 returns the type set {T} and a call
\* with depth 2 returns {T, U}.
C2_DepthOneDirectTypes ==
    \A a, b \in DeclFuncs : \A t, u \in ProjectTypes :
        (Finished /\ a # b /\ t # u /\ Scenario2(a, b, t, u)) =>
            /\ depth = 1 => Keys(allReferencedTypes) = {TypeKey(t)}
            /\ depth = 2 => Keys(allReferencedTypes) = {TypeKey(t), TypeKey(u)}

----------------------------------------------------------------------------
(* C3 *)

----------------------------------------------------------------------------
(* C4 *)

\* fn has been walked and its body calls fn itself, or calls a walked g whose
\* body calls fn back
OnCycle(fn) ==
    \/ fn \in RefsOf(fn, "func")
    \/ \E g \in DeclFuncs \ {fn} : g \in RefsOf(fn, "func") /\ fn \in RefsOf(g, "func")

\* the entries of a map under one key
EntriesUnder(m, k) == { i \in 1..Len(m) : m[i].key = k }

\* C4: on every project with a function that calls itself or a 2-cycle, and
\* for every depth, the loop runs until the queue is empty and returns, and
\* every function on the cycle is in the returned callable set exactly once.
C4_CycleSafety ==
    (\E fn \in DeclFuncs : OnCycle(fn)) =>
        /\ pc # "panic"
        /\ Finished =>
              \A fn \in DeclFuncs :
                  OnCycle(fn) => Cardinality(EntriesUnder(allCalledFuncs, FullName(fn))) = 1

----------------------------------------------------------------------------
(* C5 *)

\* C5: within one traversal no two walks are of the same callable (by fully
\* qualified name), however many tasks were queued for it and however many
\* bodies refer to it.
C5_WalkedAtMostOnce ==
    \A i, j \in 1..Len(walked) :
        FullName(FnOf(walked[i])) = FullName(FnOf(walked[j])) => i = j

\* a finished traversal in which two tasks were queued for one function and two
\* walked bodies call it
C5_Witness ==
    /\ Finished
    /\ \E fn \in DeclFuncs :
          /\ \E i, j \in 1..Len(enqueued) :
                i < j /\ FnOf(enqueued[i]) = fn /\ FnOf(enqueued[j]) = fn
          /\ \E i, j \in 1..Len(walked) :
                /\ i < j
                /\ fn \in RefsOf(FnOf(walked[i]), "func")
                /\ fn \in RefsOf(FnOf(walked[j]), "func")

----------------------------------------------------------------------------
(* C6 *)

\* the package set computed at the start of the traversal
ProjectScope == { p.PkgPath : p \in LoadedPkgs }

\* C6: every callable and type in the result maps, every walked or queued task
\* other than the seed and every visited name other than the target's belongs
\* to a package of the project's package set; a symbol outside the set is
\* never recorded and never expanded.
C6_ScopeFiltering ==
    /\ \A i \in 1..Len(allCalledFuncs) : allCalledFuncs[i].val.pkg \in ProjectScope
    /\ \A i \in 1..Len(allReferencedTypes) :
          allReferencedTypes[i].val.Definition.pkg \in ProjectScope
    /\ \A i \in 1..Len(queue) : queue[i] # Seed => FnOf(queue[i]).pkg \in ProjectScope
    /\ \A i \in 1..Len(walked) : walked[i] # Seed => FnOf(walked[i]).pkg \in ProjectScope
    /\ \A k \in processedFuncs :
          \/ k = FullName(target.Fn.Name)
          \/ \E o \in Objects : o.kind = "func" /\ o.pkg \in ProjectScope /\ k = FullName(o)
    /\ \A o \in ExternalObjs :
          /\ ~Exists(allCalledFuncs, FullName(o))
          /\ ~Exists(allReferencedTypes, TypeKey(o))

\* a finished traversal that walked references to the outside function and to
\* the universe type and recorded a project symbol next to them
C6_Witness ==
    /\ Finished
    /\ \A o \in ExternalObjs :
          \E i \in 1..Len(walked) : o \in Range(body[FnOf(walked[i])].List)
    /\ allCalledFuncs # <<>>

----------------------------------------------------------------------------
(* C7 *)

\* C7: two calls of ExtractCalledFuncs, or of ExtractTypes, with the same
\* target and depth on the unchanged project return the same names at the
\* same positions.
C7_SameListTwice ==
    op \in {"ExtractCalledFuncs", "ExtractTypes"} =>
        \A i, j \in 1..Len(outputs) :
            outputs[i].funcs = outputs[j].funcs /\ outputs[i].types = outputs[j].types

----------------------------------------------------------------------------
(* C8 *)

\* C8: the lists a call hands back (the name list of ExtractCalledFuncs and
\* of ExtractTypes, the two summaries and the two runs of snippet blocks of
\* Analyze) are in the order in which the traversal first discovered the names.
C8_DiscoveryOrder ==
    pc = "returned" =>
        LET out == outputs[Len(outputs)]
        IN /\ op \in {"ExtractCalledFuncs", "Analyze"} =>
                 out.funcs = KeySeq(allCalledFuncs)
           /\ op \in {"ExtractTypes", "Analyze"} =>
                 out.types = KeySeq(allReferencedTypes)
           /\ op = "Analyze" =>
                 /\ out.funcSnippets = FuncSnippetBlocks(KeySeq(allCalledFuncs))
                 /\ out.typeSnippets = TypeSnippetBlocks(KeySeq(allReferencedTypes))

----------------------------------------------------------------------------
(* C9 *)

\* two distinct objects of one kind with the same local name in two packages
\* of the project
Collide(f, g) ==
    /\ f # g /\ f.kind = g.kind /\ f.name = g.name /\ f.pkg # g.pkg
    /\ f.pkg \in ProjectScope /\ g.pkg \in ProjectScope

\* a walked body refers to the object
Discovered(o) == \E i \in 1..Len(walked) : o \in Range(body[FnOf(walked[i])].List)

\* the object has a result entry of its own
Recorded(o) ==
    IF o.kind = "func"
    THEN Exists(allCalledFuncs, FullName(o)) /\ Get(allCalledFuncs, FullName(o)) = o
    ELSE Exists(allReferencedTypes, TypeKey(o))
         /\ Get(allReferencedTypes, TypeKey(o)).Definition = o

\* a queued function was walked under a visited entry of its own
ExpandedIfQueued(o) ==
    (\E i \in 1..Len(enqueued) : FnOf(enqueued[i]) = o) =>
        /\ \E i \in 1..Len(walked) : FnOf(walked[i]) = o
        /\ FullName(o) \in processedFuncs

\* C9: two distinct functions, or two distinct types, with one local name in
\* two packages of the project are kept under two keys: once the traversal
\* has discovered both, each has its own result entry, and each that was
\* queued was walked under its own visited entry.
C9_CollisionIndependence ==
    Finished =>
        \A f, g \in Objects :
            (Collide(f, g) /\ Discovered(f) /\ Discovered(g)) =>
                /\ Recorded(f) /\ Recorded(g)
                /\ ExpandedIfQueued(f) /\ ExpandedIfQueued(g)

----------------------------------------------------------------------------
(* C10 *)

\* the declaration of a callable cannot be located for expansion
Unlocatable(fun) == fun.pkg \notin typePkgMap \/ findFuncDeclAt(fun) = NoDecl

\* the task the loop would queue for a located callable found by task t
TaskFor(fun, t) == AnalysisTask(AnalysisTarget(fun.pkg, findFuncDeclAt(fun)), t.Depth + 1)

\* C10: in a step that walks a body and discovers a callable whose declaration
\* cannot be located, that callable is recorded and not queued, every other
\* callable of the body is recorded and, when new, locatable and within the
\* depth, queued, every type of the body is recorded, the rest of the queue is
\* kept, and the loop goes on without an error.
C10_UnlocatableSkipped ==
    [][ (pc = "loop" /\ walked' # walked) =>
          LET t == Head(queue)
              b == body'[FnOf(t)].List
              funs == Collect(b, projectPackages, "func")
              tys == Collect(b, projectPackages, "type")
              New(o) == ~Exists(allCalledFuncs, FullName(o))
          IN (\E i \in 1..Len(funs) : Unlocatable(funs[i]) /\ New(funs[i])) =>
                /\ pc' = "loop"
                /\ \A i \in 1..Len(funs) :
                      /\ Exists(allCalledFuncs', FullName(funs[i]))
                      /\ Unlocatable(funs[i]) =>
                            \A k \in 1..Len(queue') : FnOf(queue'[k]) # funs[i]
                      /\ (~Unlocatable(funs[i]) /\ New(funs[i]) /\ t.Depth < depth) =>
                            TaskFor(funs[i], t) \in Range(queue')
                /\ \A j \in 1..Len(tys) : Exists(allReferencedTypes', TypeKey(tys[j]))
                /\ Len(queue') >= Len(queue) - 1
                /\ SubSeq(queue', 1, Len(queue) - 1) = Tail(queue)
      ]_vars

\* a finished traversal that walked a body calling an interface method, which has
\* no declaration, and then a declared function, which was queued and walked
C10_Witness ==
    /\ Finished
    /\ \E u \in IfaceMethods, c \in DeclFuncs :
          /\ body[target.Fn.Name].List = <<u, c>>
          /\ c # target.Fn.Name
          /\ Exists(allCalledFuncs, FullName(u))
          /\ \A i \in 1..Len(enqueued) : FnOf(enqueued[i]) # u
          /\ \E i \in 1..Len(walked) : FnOf(walked[i]) = c

----------------------------------------------------------------------------
(* C11 *)

\* C11: in the report Analyze returns, every discovered callable and every
\* discovered type is named in its summary and has a labeled block: its
\* snippet or, when the declaration cannot be located, a placeholder.
C11_EverySymbolHasBlock ==
    (pc = "returned" /\ op = "Analyze") =>
        LET out == outputs[Len(outputs)]
        IN /\ Range(out.funcs) = Keys(allCalledFuncs)
           /\ Range(out.types) = Keys(allReferencedTypes)
           /\ Range(out.funcSnippets) = Keys(allCalledFuncs)
           /\ Range(out.typeSnippets) = Keys(allReferencedTypes)

----------------------------------------------------------------------------
(* C12 *)

\* a file of the project at the path declares a function under the name
DeclaredIn(path, name) ==
    \E g \in GoFiles : g.File = path /\ \E i \in 1..Len(g.Decls) : g.Decls[i].name = name

\* no traversal step has run and no entry point was called
NothingTraversed ==
    /\ pc \in {"request", "params", "loaded", "responded"}
    /\ op = "none"
    /\ enqueued = <<>> /\ walked = <<>> /\ outputs = <<>>
    /\ allCalledFuncs = <<>> /\ allReferencedTypes = <<>>

\* C12: in every handler and in the command, when loading the project fails
\* or no project file at the given path declares a function of the given
\* name, no entry point of the tracer is called and no traversal step runs,
\* and the request ends with an error and without a result.
C12_SetupErrorsAbort ==
    (request.load = "error" \/ ~DeclaredIn(AbsInputFile(request.file), request.func)) =>
        /\ NothingTraversed
        /\ pc = "responded" => response.isError

\* a request with all its parameters, for a project that loads, naming a
\* project file and a function the file does not declare, was answered with
\* the lookup error
C12_Witness ==
    /\ pc = "responded"
    /\ Required(request.tool) \subseteq request.has
    /\ request.load # "error"
    /\ IsAbs(request.file)
    /\ \E g \in GoFiles : g.File = request.file
    /\ ~DeclaredIn(request.file, request.func)
    /\ response = ErrorResult("Failed to find target")

----------------------------------------------------------------------------
(* C13 *)

\* C13: a tool call that lacks a parameter its tool declares as required is
\* answered with an error result before the project is loaded.
C13_MissingParamRejected ==
    (request.tool \in ServerTools /\ ~(Declared(request.tool) \subseteq request.has)) =>
        /\ pc \in {"request", "responded"}
        /\ pc = "responded" => response.isError

----------------------------------------------------------------------------
(* C14 *)

\* C14: when the load reports errors in some packages and the lookup finds
\* the target, the command and the handlers go on to the traversal: the
\* request is not ended by an error.
C14_PartialLoadUsable ==
    ( /\ request.load = "partial"
      /\ Required(request.tool) \subseteq request.has
      /\ DeclaredIn(LookupPath(request), request.func) ) =>
        (pc = "responded" => ~response.isError)

----------------------------------------------------------------------------
(* C15 *)

\* performRecursiveAnalysis run alone and to its end on the project as the
\* traversals have read it: the result maps of the loop started with queue q
RECURSIVE RunAlone(_, _, _, _)
RunAlone(q, processed, called, refd) ==
    IF q = <<>> THEN [CalledFuncs |-> called, ReferencedTypes |-> refd]
    ELSE LET task == Head(q)
             obj == ObjectOf(task.Target.Fn)
         IN IF obj = NoObj \/ FullName(obj) \in processed
            THEN RunAlone(Tail(q), processed, called, refd)
            ELSE LET b == body[FnOf(task)].List
                     r == RecordFuncs(Collect(b, projectPackages, "func"),
                                      called, Tail(q), task)
                 IN RunAlone(r.queue, processed \cup {FullName(obj)}, r.called,
                             RecordTypes(Collect(b, projectPackages, "type"), refd))

\* C15: when two traversals run over the same packages with their steps
\* interleaved in any order, a step of one leaves the queue, the visited set
\* and the result maps of the other as they were (the other's state changes
\* only by being scheduled, and is then what it was when it was taken off),
\* no step changes what has been read of the packages, and a traversal that
\* returns has the result maps it has when run alone.
C15_TraversalsIsolated ==
    /\ [][ /\ parked' # parked => (parked' = Locals /\ Locals' = parked /\ body' = body)
           /\ \A f \in DeclFuncs : body[f] # Unread => body'[f] = body[f]
         ]_vars
    /\ [](pc = "done" =>
            /\ allCalledFuncs = RunAlone(<<Seed>>, {}, <<>>, <<>>).CalledFuncs
            /\ allReferencedTypes = RunAlone(<<Seed>>, {}, <<>>, <<>>).ReferencedTypes)

\* both traversals have returned, both walked the body of one same function,
\* one of them walked a second body, and their callable maps differ
C15_Witness ==
    /\ pc = "done" /\ parked.pc = "done"
    /\ Len(walked) >= 2 /\ Len(parked.walked) >= 1
    /\ \E i \in 1..Len(walked), j \in 1..Len(parked.walked) :
          FnOf(walked[i]) = FnOf(parked.walked[j])
    /\ allCalledFuncs # parked.allCalledFuncs

----------------------------------------------------------------------------
(* C16 *)

\* C16: every task placed on the queue has the depth of the task whose body
\* discovered it plus one, and a body is walked only for a task whose depth is
\* below the depth bound.
C16_DepthParentPlusOne ==
    /\ \A i \in 2..Len(enqueued) :
          \E j \in 1..Len(walked) :
              /\ enqueued[i].Depth = walked[j].Depth + 1
              /\ FnOf(enqueued[i]) \in RefsOf(FnOf(walked[j]), "func")
    /\ \A i \in 1..Len(walked) : walked[i].Depth < depth

----------------------------------------------------------------------------
(* C17 *)

\* the keys a type of the project has in the type result map
TypeKeys == { TypeKey(t) : t \in ProjectTypes }

\* C17: a type is only ever recorded in the type result map: after every step
\* no queued task and no visited key is of a type, the callable map holds
\* functions only and the type map types only, and a step that walks a body
\* appends to the queue tasks for callables of that body only, so that a body
\* of types alone leaves the rest of the queue as it was.
C17_TypesAreLeaves ==
    [][ /\ \A i \in 1..Len(enqueued') : FnOf(enqueued'[i]).kind = "func"
        /\ processedFuncs' \cap TypeKeys = {}
        /\ \A i \in 1..Len(allCalledFuncs') : allCalledFuncs'[i].val.kind = "func"
        /\ \A i \in 1..Len(allReferencedTypes') :
              allReferencedTypes'[i].val.Definition.kind = "type"
        /\ walked' # walked =>
              LET b == body'[FnOf(Head(queue))].List
              IN /\ SubSeq(queue', 1, Len(queue) - 1) = Tail(queue)
                 /\ \A k \in Len(queue)..Len(queue') :
                       FnOf(queue'[k]) \in Range(b) /\ FnOf(queue'[k]).kind = "func"
                 /\ (\A k \in 1..Len(b) : b[k].kind = "type") => queue' = Tail(queue)
      ]_vars

\* a finished traversal that walked a body with a project type and a declared
\* function: the type was recorded, the function queued and walked
C17_Witness ==
    /\ Finished
    /\ \E t \in ProjectTypes, c \in DeclFuncs :
          /\ c # target.Fn.Name
          /\ body[target.Fn.Name].List = <<t, c>>
          /\ Exists(allReferencedTypes, TypeKey(t))
          /\ \E i \in 1..Len(walked) : FnOf(walked[i]) = c

----------------------------------------------------------------------------
(* C18 *)

\* C18: a walked task whose declaration has no body adds no callable and no
\* type and raises no error: the loop goes on with the rest of the queue.
C18_NilBodyNoCandidates ==
    \A i \in 1..Len(walked) :
        body[FnOf(walked[i])] = NilBody => pc \in {"loop", "done", "returned"}

----------------------------------------------------------------------------
(* C19 *)

\* C19: in every step of a traversal the visited set and the two result maps
\* only grow: every visited key stays, every result key stays, and the symbol
\* stored under a result key stays the one stored first.
C19_MonotoneGrowth ==
    [][ /\ processedFuncs \subseteq processedFuncs'
        /\ \A k \in Keys(allCalledFuncs) :
              Exists(allCalledFuncs', k) /\ Get(allCalledFuncs', k) = Get(allCalledFuncs, k)
        /\ \A k \in Keys(allReferencedTypes) :
              /\ Exists(allReferencedTypes', k)
              /\ Get(allReferencedTypes', k) = Get(allReferencedTypes, k)
      ]_vars

\* a finished traversal of two bodies that found a second symbol under a key
\* already in the callable map, which still holds the first
C19_Witness ==
    /\ Finished /\ Len(walked) = 2
    /\ \E f, g \in IfaceMethods :
          /\ f # g
          /\ f \in Range(body[FnOf(walked[1])].List)
          /\ g \in Range(body[FnOf(walked[2])].List)
          /\ Get(allCalledFuncs, FullName(f)) = f

----------------------------------------------------------------------------
(* C20 *)

\* C20: a tool call that names a project file by its path relative to the
\* project root, and a function that file declares, resolves the target as
\* the command does: it is not answered with an error.
C20_RelativeFileResolves ==
    ( /\ request.tool \in ServerTools
      /\ Required(request.tool) \subseteq request.has
      /\ request.load # "error"
      /\ ~IsAbs(request.file)
      /\ DeclaredIn(Join(ProjectRoot, request.file), request.func) ) =>
        (pc = "responded" => ~response.isError)

----------------------------------------------------------------------------
(* C21 *)

\* C21: a called_funcs call that carries no depth runs its traversal with
\* depth 0.
C21_CalledFuncsDefaultDepth ==
    ( /\ request.tool = "called_funcs"
      /\ "depth" \notin request.has
      /\ op = "ExtractCalledFuncs" ) =>
        depth = 0

----------------------------------------------------------------------------
(* C22 *)

\* the declared functions at most k call hops from the target, the hops
\* going through the bodies read so far and through callables whose
\* declaration can be located
RECURSIVE Within(_)
Within(k) ==
    IF k <= 0 THEN {target.Fn.Name}
    ELSE LET near == Within(k - 1)
         IN near \cup { g \in DeclFuncs :
                          /\ findFuncDeclAt(g) # NoDecl
                          /\ \E f \in near : g \in RefsOf(f, "func") }

\* the objects of one kind the bodies of a set of functions refer to
RefsOfAll(fns, kind) == UNION { RefsOf(f, kind) : f \in fns }

----------------------------------------------------------------------------
(* C23 *)

\* the shortest call-hop distance of a declared function from the target, -1
\* when no chain of read bodies leads to it
Dist(fn) ==
    LET hops == { k \in 0..Cardinality(DeclFuncs) : fn \in Within(k) }
    IN IF hops = {} THEN -1
       ELSE CHOOSE k \in hops : \A j \in hops : k <= j

Max(a, b) == IF a >= b THEN a ELSE b

\* C23: in every state of the traversal the depths of the queued tasks do not
\* decrease from the front of the queue to its back and differ by at most
\* one, no queued task is deeper than max(depth, 0), and every task whose
\* function was walked has as its depth the shortest call-hop distance of
\* that function from the target.
C23_QueueDepthsLevelOrder ==
    /\ \A i, j \in 1..Len(queue) : i <= j => queue[i].Depth <= queue[j].Depth
    /\ queue # <<>> => queue[Len(queue)].Depth - queue[1].Depth <= 1
    /\ \A i \in 1..Len(queue) : queue[i].Depth <= Max(depth, 0)
    /\ \A i \in 1..Len(walked) : walked[i].Depth = Dist(FnOf(walked[i]))

\* the queue holds tasks of two levels: a function one hop away waits in
\* front of a function two hops away, found by a walked task of depth 1
C23_Witness ==
    /\ pc = "loop" /\ Len(queue) >= 2 /\ Len(walked) >= 2
    /\ queue[1].Depth = 1 /\ queue[Len(queue)].Depth = 2
    /\ walked[Len(walked)].Depth = 1

----------------------------------------------------------------------------
(* C24 *)

\* the number of functions and methods the project declares
NumCallables == Cardinality(DeclFuncs)

\* the depth bounds the traversal is run with, one after the other
LowestDepth == -2

HighestDepth == NumCallables + 1

\* what performRecursiveAnalysis returned for a depth bound: the keys of its
\* two maps
ResultFor(d) ==
    [depth |-> d, funcs |-> Keys(allCalledFuncs), types |-> Keys(allReferencedTypes)]

\* the traversal has returned (tracer.go:127); its result is kept and the same
\* target is traversed on the same project with the next depth bound
Deeper ==
    /\ pc = "done"
    /\ outputs' = Append(outputs, ResultFor(depth))
    /\ IF depth < HighestDepth
       THEN depth' = depth + 1 /\ pc' = "call"
       ELSE depth' = depth /\ pc' = "returned"
    /\ UNCHANGED <<target, op, body, projectPackages, typePkgMap, queue,
                   processedFuncs, allCalledFuncs, allReferencedTypes, walked,
                   enqueued, request, response, parked>>

\* one target traversed with every depth bound from LowestDepth up
InitDepths ==
    /\ target \in ResolvedTargets
    /\ depth = LowestDepth
    /\ op = "performRecursiveAnalysis"
    /\ body = [f \in DeclFuncs |-> Unread]
    /\ pc = "call"
    /\ projectPackages = {}
    /\ typePkgMap = {}
    /\ queue = <<>>
    /\ processedFuncs = {}
    /\ allCalledFuncs = <<>>
    /\ allReferencedTypes = <<>>
    /\ walked = <<>>
    /\ enqueued = <<>>
    /\ outputs = <<>>
    /\ request = NoRequest
    /\ response = NoResponse
    /\ parked = NoTraversal

NextDepths ==
    \/ Begin
    \/ SkipUnresolved
    \/ SkipProcessed
    \/ WalkNilBody
    \/ Expand
    \/ Return
    \/ Deeper

SpecDepths == InitDepths /\ [][NextDepths]_vars

\* C24: of the traversals of one target on one project that return, the
\* callable and type sets for a depth bound d >= 0 are subsets of those for
\* d + 1, the sets for a negative bound are those for the bound 0, and the
\* sets for two bounds that are both at least the number of the project's
\* callables are the same.
C24_MonotoneInDepth ==
    \A i, j \in 1..Len(outputs) :
        LET a == outputs[i]
            b == outputs[j]
        IN /\ (a.depth >= 0 /\ b.depth = a.depth + 1) =>
                  (a.funcs \subseteq b.funcs /\ a.types \subseteq b.types)
           /\ (a.depth < 0 /\ b.depth = 0) =>
                  (a.funcs = b.funcs /\ a.types = b.types)
           /\ (a.depth >= NumCallables /\ b.depth >= NumCallables) =>
                  (a.funcs = b.funcs /\ a.types = b.types)

\* every depth bound was run and returned; the callable set grew from bound 0
\* to bound 1 and again to bound 2, and both negative bounds were run
C24_Witness ==
    /\ pc = "returned"
    /\ Len(outputs) = HighestDepth - LowestDepth + 1
    /\ outputs[1].depth = LowestDepth /\ outputs[Len(outputs)].depth = HighestDepth
    /\ \E i \in 1..(Len(outputs) - 2) :
          /\ outputs[i].depth = 0
          /\ outputs[i].funcs # {}
          /\ outputs[i].funcs # outputs[i + 1].funcs
          /\ outputs[i + 1].funcs # outputs[i + 2].funcs

----------------------------------------------------------------------------
(* C25 *)

\* the identity of the function a task is about
KeyOf(task) == FullName(FnOf(task))

\* the identities of the callables of the project's packages
ProjectCallables ==
    { FullName(o) : o \in { x \in DeclFuncs \cup IfaceMethods : x.pkg \in ProjectScope } }

\* the tasks taken from the queue so far
Dequeued == Len(enqueued) - Len(queue)

\* C25: in every state of a traversal no two of the tasks the loop queued
\* (all but the seed) are about the same callable, a task is queued only in
\* the step that first stores its callable in the callable map, every visited
\* name other than the target's is a key of the callable map, and the number
\* of tasks taken from the queue is at most the number of the project's
\* callables plus one, the one being the seed.
C25_EnqueuedOnce ==
    /\ [] ( /\ \A i, j \in 2..Len(enqueued) :
                 KeyOf(enqueued[i]) = KeyOf(enqueued[j]) => i = j
            /\ \A i \in 2..Len(enqueued) : Exists(allCalledFuncs, KeyOf(enqueued[i]))
            /\ processedFuncs \ {KeyOf(Seed)} \subseteq Keys(allCalledFuncs)
            /\ Dequeued <= Cardinality(Keys(allCalledFuncs)) + 1
            /\ Keys(allCalledFuncs) \subseteq ProjectCallables
            /\ Dequeued <= Cardinality(ProjectCallables) + 1 )
    /\ [][ pc = "loop" =>
             /\ Len(enqueued') >= Len(enqueued)
             /\ SubSeq(enqueued', 1, Len(enqueued)) = enqueued
             /\ \A i \in (Len(enqueued) + 1)..Len(enqueued') :
                   /\ ~Exists(allCalledFuncs, KeyOf(enqueued'[i]))
                   /\ Exists(allCalledFuncs', KeyOf(enqueued'[i])) ]_vars

\* a returned traversal whose target calls b and itself, and b calls the
\* target: the target was queued once more when first stored, b once, the
\* target not again when b's body named it, and the three tasks taken from
\* the queue are the two callables plus the seed
C25_Witness ==
    /\ Finished /\ target.Fn.Def
    /\ Len(enqueued) = 3 /\ Len(walked) = 2
    /\ KeyOf(enqueued[3]) = KeyOf(Seed) /\ KeyOf(enqueued[2]) # KeyOf(Seed)
    /\ body[FnOf(walked[1])].List = <<FnOf(enqueued[2]), target.Fn.Name>>
    /\ body[FnOf(walked[2])].List = <<target.Fn.Name>>
    /\ Dequeued = Cardinality(Keys(allCalledFuncs)) + 1

====
